---- MODULE Spec2Model ----
(***************************************************************************)
(* CORD-19 data explorer: the Streamlit application (src/app.py) and the   *)
(* batch analysis script (src/src/data_analysis.py).                       *)
(*                                                                         *)
(* A text is a sequence of one-character strings.  An optional value       *)
(* (pandas NaN / NaT, Python None) is a sequence of length 0 (absent) or   *)
(* 1 (present).  A DataFrame is a record [columns, rows]; each row carries *)
(* its pandas index label.                                                 *)
(***************************************************************************)
EXTENDS Integers, Sequences, FiniteSets, TLC

VARIABLES
    file,               \* data/sample_metadata.csv on disk
    prog,               \* which entry point runs: "app" | "batch" | "text"
    pc,                 \* position of the program
    df,                 \* app: df of main(); batch: self.df
    selected_years,     \* st.sidebar.multiselect("Select Years")
    selected_journals,  \* st.sidebar.multiselect("Select Journals")
    selected_sources,   \* st.sidebar.multiselect("Select Sources")
    search_term,        \* st.text_input("Search in titles and abstracts:")
    filtered_df,        \* app: filtered_df of main()
    cleaned_df,         \* batch: self.cleaned_df
    metrics,            \* app: the four st.metric values of tab1
    year_counts,        \* year_counts of tab1 / analyze_publications_by_year
    all_titles,         \* all_titles of tab4 / analyze_word_frequency
    words,              \* words after stop-word filtering
    top_words,          \* word_counts.most_common(20)
    report,             \* batch: lines printed by generate_summary_report
    outcome,            \* how the last run ended
    rendered            \* app: UI steps performed by the last run, in order

vars == <<file, prog, pc, df, selected_years, selected_journals, selected_sources,
          search_term, filtered_df, cleaned_df, metrics, year_counts, all_titles,
          words, top_words, report, outcome, rendered>>

-----------------------------------------------------------------------------
(* Optional values *)

Absent == <<>>
Some(x) == <<x>>
IsAbsent(o) == Len(o) = 0
Val(o) == o[1]

Min2(a, b) == IF a <= b THEN a ELSE b

-----------------------------------------------------------------------------
(* Characters and strings (Python str) *)

Uppers == <<"A","B","C","D","E","F","G","H","I","J","K","L","M",
            "N","O","P","Q","R","S","T","U","V","W","X","Y","Z">>
Lowers == <<"a","b","c","d","e","f","g","h","i","j","k","l","m",
            "n","o","p","q","r","s","t","u","v","w","x","y","z">>
Digits == <<"0","1","2","3","4","5","6","7","8","9">>

LetterSet == {Uppers[i] : i \in 1..26} \cup {Lowers[i] : i \in 1..26}
DigitSet == {Digits[i] : i \in 1..10}

UpperSet == {Uppers[i] : i \in 1..26}
LowerOf == [u \in UpperSet |-> Lowers[CHOOSE i \in 1..26 : Uppers[i] = u]]
WordChars == LetterSet \cup DigitSet \cup {"_"}
WhiteSpace == {" ", "\t", "\n"}

\* str.lower() on one character
lower_char(c) == IF c \in UpperSet THEN LowerOf[c] ELSE c

\* str.lower()
lower(text) == [i \in 1..Len(text) |-> lower_char(text[i])]

\* \w of the re module: letters, digits, underscore
IsWordChar(c) == c \in WordChars

\* str.isspace() on one character
IsSpace(c) == c \in WhiteSpace

\* re.findall(r'\b\w+\b', text): the maximal runs of word characters, in order
RECURSIVE findall_from(_, _, _)
findall_from(text, i, cur) ==
    IF i > Len(text)
    THEN IF cur = <<>> THEN <<>> ELSE <<cur>>
    ELSE IF IsWordChar(text[i])
         THEN findall_from(text, i + 1, Append(cur, text[i]))
         ELSE (IF cur = <<>> THEN <<>> ELSE <<cur>>) \o findall_from(text, i + 1, <<>>)

findall(text) == findall_from(text, 1, <<>>)

\* A mutant of str_split: str.split(' '), which yields an empty string between two
\* adjacent separators and for an empty text
RECURSIVE split_single_from(_, _, _)
split_single_from(text, i, cur) ==
    IF i > Len(text)
    THEN <<cur>>
    ELSE IF text[i] = " "
         THEN <<cur>> \o split_single_from(text, i + 1, <<>>)
         ELSE split_single_from(text, i + 1, Append(cur, text[i]))

str_split_single_space(text) == split_single_from(text, 1, <<>>)

\* str.split(): split on runs of whitespace, no empty strings
RECURSIVE split_from(_, _, _)
split_from(text, i, cur) ==
    IF i > Len(text)
    THEN IF cur = <<>> THEN <<>> ELSE <<cur>>
    ELSE IF IsSpace(text[i])
         THEN (IF cur = <<>> THEN <<>> ELSE <<cur>>) \o split_from(text, i + 1, <<>>)
         ELSE split_from(text, i + 1, Append(cur, text[i]))

str_split(text) == split_from(text, 1, <<>>)

\* str.strip(): leading and trailing whitespace removed
RECURSIVE str_lstrip(_)
str_lstrip(text) ==
    IF text # <<>> /\ IsSpace(text[1]) THEN str_lstrip(Tail(text)) ELSE text

RECURSIVE str_rstrip(_)
str_rstrip(text) ==
    IF text # <<>> /\ IsSpace(text[Len(text)])
    THEN str_rstrip(SubSeq(text, 1, Len(text) - 1))
    ELSE text

str_strip(text) == str_rstrip(str_lstrip(text))

\* ' '.join(texts)
RECURSIVE join(_)
join(texts) ==
    IF texts = <<>> THEN <<>>
    ELSE IF Len(texts) = 1 THEN texts[1]
    ELSE texts[1] \o <<" ">> \o join(Tail(texts))

\* One pattern character of a regular expression against one character, under
\* re.IGNORECASE: "." matches any character but a newline, a letter or digit itself
regex_char(p, c) ==
    IF p = "." THEN c # "\n" ELSE lower_char(p) = lower_char(c)

regex_at(pat, text, k) ==
    /\ k + Len(pat) - 1 <= Len(text)
    /\ \A i \in 1..Len(pat) : regex_char(pat[i], text[k + i - 1])

\* Series.str.contains(pat, case=False, na=False) on one cell; regex=True is the
\* default, so pat is compiled as a regular expression.  Patterns are sequences
\* of letters, digits and "."
str_contains(cell, pat) ==
    IF IsAbsent(cell) THEN FALSE
    ELSE \E k \in 1..(Len(Val(cell)) + 1) : regex_at(pat, Val(cell), k)

-----------------------------------------------------------------------------
(* Tokenizer and frequency counter *)

stop_words_app == {
    <<"t","h","e">>, <<"a">>, <<"a","n">>, <<"a","n","d">>, <<"o","r">>, <<"b","u","t">>,
    <<"i","n">>, <<"o","n">>, <<"a","t">>, <<"t","o">>, <<"f","o","r">>, <<"o","f">>,
    <<"w","i","t","h">>, <<"b","y">>, <<"i","s">>, <<"a","r","e">>, <<"w","a","s">>,
    <<"w","e","r","e">>, <<"b","e">>, <<"b","e","e","n">>, <<"h","a","v","e">>, <<"h","a","s">>,
    <<"h","a","d">>, <<"d","o">>, <<"d","o","e","s">>, <<"d","i","d">>, <<"w","i","l","l">>,
    <<"w","o","u","l","d">>, <<"c","o","u","l","d">>, <<"s","h","o","u","l","d">>,
    <<"m","a","y">>, <<"m","i","g","h","t">>, <<"c","a","n">>, <<"t","h","i","s">>,
    <<"t","h","a","t">>, <<"t","h","e","s","e">>, <<"t","h","o","s","e">> }

stop_words_batch == stop_words_app \cup {
    <<"i">>, <<"y","o","u">>, <<"h","e">>, <<"s","h","e">>, <<"i","t">>, <<"w","e">>,
    <<"t","h","e","y">>, <<"m","e">>, <<"h","i","m">>, <<"h","e","r">>, <<"u","s">>,
    <<"t","h","e","m">> }

\* [word for word in words if word not in stop_words and len(word) > 2]
keep_words(ws, stop) == SelectSeq(ws, LAMBDA w : w \notin stop /\ Len(w) > 2)

\* app.py, tab4 and create_word_cloud
tokenize_app(text) == keep_words(findall(lower(text)), stop_words_app)

\* data_analysis.py, analyze_word_frequency
tokenize_batch(text) == keep_words(findall(lower(text)), stop_words_batch)

\* A mutant of counter_add: a new word is put in front of the older ones
counter_add_front(c, w) ==
    IF \E i \in 1..Len(c) : c[i][1] = w
    THEN [i \in 1..Len(c) |-> IF c[i][1] = w THEN <<w, c[i][2] + 1>> ELSE c[i]]
    ELSE <<(<<w, 1>>)>> \o c

\* Counter: a dict in insertion order, here a sequence of <<word, count>>
counter_add(c, w) ==
    IF \E i \in 1..Len(c) : c[i][1] = w
    THEN [i \in 1..Len(c) |-> IF c[i][1] = w THEN <<w, c[i][2] + 1>> ELSE c[i]]
    ELSE Append(c, <<w, 1>>)

RECURSIVE counter_from(_, _, _)
counter_from(ws, i, c) ==
    IF i > Len(ws) THEN c ELSE counter_from(ws, i + 1, counter_add(c, ws[i]))

Counter(ws) == counter_from(ws, 1, <<>>)

\* sorted(items, key=count, reverse=True): stable, so equal counts keep the
\* insertion order
insert_desc(s, e) ==
    LET k == Cardinality({i \in 1..Len(s) : s[i][2] >= e[2]})
    IN SubSeq(s, 1, k) \o <<e>> \o SubSeq(s, k + 1, Len(s))

RECURSIVE sort_desc_from(_, _, _)
sort_desc_from(items, i, acc) ==
    IF i > Len(items) THEN acc ELSE sort_desc_from(items, i + 1, insert_desc(acc, items[i]))

\* Counter.most_common(n) for n >= 1: heapq.nlargest(n, items, key=count), which
\* equals sorted(items, key=count, reverse=True)[:n]
most_common(c, n) ==
    LET s == sort_desc_from(c, 1, <<>>) IN SubSeq(s, 1, Min2(n, Len(s)))

\* The argument of most_common in both programs
TopWordsLimit == 20

-----------------------------------------------------------------------------
(* pandas Series helpers; a Series is a sequence of optional values *)

\* df[name]
col(d, name) == [i \in 1..Len(d.rows) |-> d.rows[i][name]]

\* Series.dropna()
dropna(s) == SelectSeq(s, LAMBDA v : ~IsAbsent(v))

\* Series.unique(): the distinct values in order of first appearance, NaN included
RECURSIVE unique_from(_, _, _)
unique_from(s, i, acc) ==
    IF i > Len(s) THEN acc
    ELSE IF \E k \in 1..Len(acc) : acc[k] = s[i]
         THEN unique_from(s, i + 1, acc)
         ELSE unique_from(s, i + 1, Append(acc, s[i]))

unique(s) == unique_from(s, 1, <<>>)

\* sorted(values) on present integers
insert_asc(s, e) ==
    LET k == Cardinality({i \in 1..Len(s) : Val(s[i]) <= Val(e)})
    IN SubSeq(s, 1, k) \o <<e>> \o SubSeq(s, k + 1, Len(s))

RECURSIVE sorted_from(_, _, _)
sorted_from(s, i, acc) ==
    IF i > Len(s) THEN acc ELSE sorted_from(s, i + 1, insert_asc(acc, s[i]))

sorted(s) == sorted_from(s, 1, <<>>)

\* A mutant of isin: Python's ==, under which NaN equals nothing, itself included
isin_python_eq(v, values) == ~IsAbsent(v) /\ v \in values

\* Series.isin(values) on one cell: pandas matches NaN with NaN
isin(v, values) == \E w \in values : w = v

\* Series.value_counts().sort_index(): NaN is dropped (dropna=True), one
\* <<value, count>> per distinct value, ascending by value
value_counts_sort_index(s) ==
    LET keys == sorted(unique(dropna(s)))
    IN [k \in 1..Len(keys) |->
            <<Val(keys[k]), Cardinality({i \in 1..Len(s) : s[i] = keys[k]})>>]

\* Series.nunique(): NaN is not counted
nunique(s) == Len(unique(dropna(s)))

\* Series.min() / Series.max(): NaN is skipped; NaN for no value
series_min(s) ==
    LET p == dropna(s)
    IN IF p = <<>> THEN Absent
       ELSE Some(CHOOSE m \in {Val(p[i]) : i \in 1..Len(p)} :
                     \A i \in 1..Len(p) : m <= Val(p[i]))

series_max(s) ==
    LET p == dropna(s)
    IN IF p = <<>> THEN Absent
       ELSE Some(CHOOSE m \in {Val(p[i]) : i \in 1..Len(p)} :
                     \A i \in 1..Len(p) : m >= Val(p[i]))

\* Series.min() / Series.max() of a datetime column: NaT is skipped; NaT for no value
ts_le(a, b) == a[1] < b[1] \/ (a[1] = b[1] /\ a[2] <= b[2])

series_min_ts(s) ==
    LET p == dropna(s)
    IN IF p = <<>> THEN Absent
       ELSE Some(CHOOSE m \in {Val(p[i]) : i \in 1..Len(p)} :
                     \A i \in 1..Len(p) : ts_le(m, Val(p[i])))

series_max_ts(s) ==
    LET p == dropna(s)
    IN IF p = <<>> THEN Absent
       ELSE Some(CHOOSE m \in {Val(p[i]) : i \in 1..Len(p)} :
                     \A i \in 1..Len(p) : ts_le(Val(p[i]), m))

RECURSIVE sum_from(_, _)
sum_from(s, i) == IF i > Len(s) THEN 0 ELSE s[i] + sum_from(s, i + 1)

\* Series.mean() of an integer column: NaN for an empty one, else sum / count,
\* kept as the pair <<sum, count>>
series_mean(s) == IF s = <<>> THEN Absent ELSE Some(<<sum_from(s, 1), Len(s)>>)

\* Series.mode(): the most frequent present values; empty for no present value
series_mode(s) ==
    LET p == dropna(s)
        n(v) == Cardinality({i \in 1..Len(p) : p[i] = v})
    IN {p[i] : i \in {j \in 1..Len(p) : \A k \in 1..Len(p) : n(p[j]) >= n(p[k])}}

\* df[mask]: the rows whose mask is true, in order, index labels kept
select_rows(d, mask(_)) == [columns |-> d.columns, rows |-> SelectSeq(d.rows, mask)]

-----------------------------------------------------------------------------
(* The CSV file *)

RequiredColumns == {"title", "abstract", "authors", "journal", "source", "publish_time"}

\* Cell texts
T_SheCov == <<"S","h","e"," ","c","o","v">>
T_theFluAb == <<"t","h","e"," ","F","l","u"," ","a","b">>
A_covOfX == <<"c","o","v"," "," ","o","f"," ","x">>
A_blank == <<" ">>

\* publish_time cells: a date string (year, month) or a string that is no date
Jan2020 == <<"date", 2020, 1>>
Mar2021 == <<"date", 2021, 3>>
NoDate == <<"junk", 0, 0>>

CsvRow(t, a, j, s, p) ==
    [title |-> t, abstract |-> a, journal |-> j, source |-> s, publish_time |-> p]

\* The rows a file is made of.  An empty cell is read as NaN (Absent).
SampleRows == {
    CsvRow(Some(T_SheCov),   Some(A_covOfX), Some("A"), Some("PMC"), Some(Jan2020)),
    CsvRow(Some(T_theFluAb), Absent,         Some("A"), Some("PMC"), Some(Jan2020)),
    CsvRow(Some(T_theFluAb), Some(A_blank),  Some("B"), Absent,      Some(Mar2021)),
    CsvRow(Absent,           Some(A_covOfX), Absent,    Absent,      Some(Mar2021)),
    CsvRow(Some(T_SheCov),   Absent,         Some("B"), Some("PMC"), Some(NoDate)),
    CsvRow(Some(T_theFluAb), Some(A_covOfX), Some("A"), Absent,      Absent) }

\* Most rows of a file
MaxRows == 2

\* What the user may type into the search box
SearchTerms == { <<>>, <<"f",".","U">> }

\* Most rows of a file that lacks a column
MaxRowsLacking == 1

RowLists(max) == UNION {[1..n -> SampleRows] : n \in 0..max}

\* A file without column c has no cell for it
blank_missing(r, columns) ==
    [c \in DOMAIN r |-> IF c \in columns THEN r[c] ELSE Absent]

Files ==
    { [exists |-> FALSE, columns |-> {}, rows |-> <<>>] } \cup
    { [exists |-> TRUE, columns |-> cs,
       rows |-> [i \in 1..Len(rs) |-> blank_missing(rs[i], cs)]] :
         cs \in {RequiredColumns \ {c} : c \in RequiredColumns},
         rs \in RowLists(MaxRowsLacking) } \cup
    { [exists |-> TRUE, columns |-> RequiredColumns, rows |-> rs] : rs \in RowLists(MaxRows) }

\* pd.read_csv: a RangeIndex from 0, the file's columns
read_csv(f) ==
    [columns |-> f.columns,
     rows |-> [i \in 1..Len(f.rows) |->
                 [index |-> i - 1, title |-> f.rows[i].title,
                  abstract |-> f.rows[i].abstract, journal |-> f.rows[i].journal,
                  source |-> f.rows[i].source, publish_time |-> f.rows[i].publish_time]]]

\* pd.to_datetime(cell, errors='coerce'): NaT for NaN and for a string that is no date
to_datetime(cell) ==
    IF IsAbsent(cell) THEN Absent
    ELSE IF Val(cell)[1] = "date" THEN Some(<<Val(cell)[2], Val(cell)[3]>>)
    ELSE Absent

\* Series.dt.year on one cell
dt_year(ts) == IF IsAbsent(ts) THEN Absent ELSE Some(Val(ts)[1])

\* lambda x: len(str(x).split()) if pd.notna(x) and x != '' else 0
word_count(x) ==
    IF ~IsAbsent(x) /\ Val(x) # <<>> THEN Len(str_split(Val(x))) ELSE 0

\* The derived columns of load_data and clean_data on one row
derive_row(r) ==
    LET ts == to_datetime(r.publish_time)
    IN [index |-> r.index, title |-> r.title, abstract |-> r.abstract,
        journal |-> r.journal, source |-> r.source, publish_time |-> ts,
        year |-> dt_year(ts),
        abstract_word_count |-> word_count(r.abstract),
        title_word_count |-> word_count(r.title)]

DerivedColumns == {"year", "abstract_word_count", "title_word_count"}

-----------------------------------------------------------------------------
(* src/app.py *)

\* load_data(): [raised, error, df].  FileNotFoundError is caught (st.error, None is
\* returned); a KeyError of a column lookup is not caught and leaves load_data
load_data(f) ==
    IF ~f.exists
    THEN [raised |-> "none", error |-> TRUE, df |-> Absent]
    ELSE IF \/ "publish_time" \notin f.columns
            \/ "abstract" \notin f.columns
            \/ "title" \notin f.columns
         THEN [raised |-> "KeyError", error |-> FALSE, df |-> Absent]
         ELSE LET raw == read_csv(f)
              IN [raised |-> "none", error |-> FALSE,
                  df |-> Some([columns |-> raw.columns \cup DerivedColumns,
                               rows |-> [i \in 1..Len(raw.rows) |->
                                            derive_row(raw.rows[i])]])]

\* The options of the three multiselects
year_options(d) == sorted(unique(dropna(col(d, "year"))))
journal_options(d) == unique(col(d, "journal"))
source_options(d) == unique(col(d, "source"))

Range(s) == {s[i] : i \in 1..Len(s)}

\* A mutant of filter_mask: the year test is dropped
filter_mask_no_year(r, sy, sj, ss) == isin(r.journal, sj) /\ isin(r.source, ss)

\* A mutant of filter_mask: | in place of &
filter_mask_or(r, sy, sj, ss) ==
    isin(r.year, sy) \/ isin(r.journal, sj) \/ isin(r.source, ss)

\* A mutant of filter_mask: the year test is negated
filter_mask_not_year(r, sy, sj, ss) ==
    ~isin(r.year, sy) /\ isin(r.journal, sj) /\ isin(r.source, ss)

\* The mask of the filter, on one row
filter_mask(r, sy, sj, ss) ==
    isin(r.year, sy) /\ isin(r.journal, sj) /\ isin(r.source, ss)

\* filtered_df = df[(...) & (...) & (...)]
apply_filter(d, sy, sj, ss) == select_rows(d, LAMBDA r : filter_mask(r, sy, sj, ss))

\* search_mask of tab5, on one row
search_mask(r, term) == str_contains(r.title, term) \/ str_contains(r.abstract, term)

\* The four metrics of tab1
overview_metrics(v) ==
    [total |-> Len(v.rows),
     unique_journals |-> nunique(col(v, "journal")),
     year_min |-> series_min(col(v, "year")),
     year_max |-> series_max(col(v, "year")),
     avg_abstract_length |-> series_mean(col(v, "abstract_word_count"))]

\* ' '.join(df['title'].dropna().astype(str))
join_titles(v) ==
    LET t == dropna(col(v, "title")) IN join([i \in 1..Len(t) |-> Val(t[i])])

\* tab4, lines 245-254: words and, if there is a word, top_words
title_words_app(titles) ==
    LET ws == tokenize_app(titles)
    IN  [words |-> Some(ws),
         top_words |-> IF ws # <<>>
                       THEN Some(most_common(Counter(ws), TopWordsLimit))
                       ELSE Absent]

\* create_word_cloud(text), lines 65-78: the words handed to WordCloud, None for
\* an empty or blank text and for a text without a word
create_word_cloud(text) ==
    IF text = <<>> \/ str_strip(text) = <<>>
    THEN Absent
    ELSE LET ws == tokenize_app(text) IN IF ws = <<>> THEN Absent ELSE Some(ws)

\* The locals of main() before any line has run
NoOutput ==
    [df |-> Absent, filtered_df |-> Absent, metrics |-> Absent, year_counts |-> Absent,
     all_titles |-> Absent, words |-> Absent, top_words |-> Absent]

\* main(), lines 84-288: from the header to the end of tab4.  first: the widgets
\* have no state yet and take their defaults.  The result holds the locals of
\* main(), the widget values, the steps rendered and how (whether) the run ended.
main_to_tab4(f, first, sy, sj, ss) ==
    LET ld == load_data(f)
        base == [NoOutput EXCEPT !.df = ld.df] @@
                [selected_years |-> sy, selected_journals |-> sj,
                 selected_sources |-> ss, outcome |-> "running",
                 rendered |-> <<"header">>]
    IN  IF ld.raised # "none"
        THEN [base EXCEPT !.outcome = ld.raised]
        ELSE IF IsAbsent(ld.df)
        THEN [base EXCEPT !.outcome = "DataUnavailable",
                          !.rendered = <<"header", "error">>]
        ELSE
        LET d == Val(ld.df)
            years == IF first THEN Range(year_options(d)) ELSE sy
            r1 == [base EXCEPT !.selected_years = years,
                               !.rendered = <<"header", "sidebar", "years">>]
        IN  IF "journal" \notin d.columns
            THEN [r1 EXCEPT !.outcome = "KeyError"]
            ELSE
            LET journals == IF first THEN Range(journal_options(d)) ELSE sj
                r2 == [r1 EXCEPT !.selected_journals = journals,
                                 !.rendered = Append(r1.rendered, "journals")]
            IN  IF "source" \notin d.columns
                THEN [r2 EXCEPT !.outcome = "KeyError"]
                ELSE
                LET sources == IF first THEN Range(source_options(d)) ELSE ss
                    v == apply_filter(d, years, journals, sources)
                    titles == join_titles(v)
                    tw == title_words_app(titles)
                IN  [r2 EXCEPT
                       !.selected_sources = sources,
                       !.filtered_df = Some(v),
                       !.metrics = Some(overview_metrics(v)),
                       !.year_counts = Some(value_counts_sort_index(col(v, "year"))),
                       !.all_titles = Some(titles),
                       !.words = tw.words,
                       !.top_words = tw.top_words,
                       !.rendered = r2.rendered \o
                                    <<"sources", "tab1", "tab2", "tab3", "tab4">>]

\* main(), lines 84-288, as an action.  The first run takes the widgets' defaults
Main ==
    /\ prog = "app"
    /\ pc \in {"start", "rerun"}
    /\ LET r == main_to_tab4(file, pc = "start", selected_years, selected_journals,
                             selected_sources)
       IN  /\ df' = r.df
           /\ selected_years' = r.selected_years
           /\ selected_journals' = r.selected_journals
           /\ selected_sources' = r.selected_sources
           /\ filtered_df' = r.filtered_df
           /\ metrics' = r.metrics
           /\ year_counts' = r.year_counts
           /\ all_titles' = r.all_titles
           /\ words' = r.words
           /\ top_words' = r.top_words
           /\ outcome' = r.outcome
           /\ rendered' = r.rendered
           /\ pc' = IF r.outcome = "running" THEN "tab5" ELSE "idle"
    /\ UNCHANGED <<file, prog, search_term, cleaned_df, report>>

\* A widget changed: Streamlit starts the script again, the locals of the last
\* run are gone, the widgets keep their values
Restart ==
    /\ pc' = "rerun"
    /\ df' = Absent
    /\ filtered_df' = Absent
    /\ metrics' = Absent
    /\ year_counts' = Absent
    /\ all_titles' = Absent
    /\ words' = Absent
    /\ top_words' = Absent
    /\ outcome' = "running"
    /\ rendered' = <<>>
    /\ UNCHANGED <<file, prog, cleaned_df, report>>

\* The user changes the year multiselect
SelectYears ==
    /\ prog = "app"
    /\ pc = "idle"
    /\ "years" \in Range(rendered)
    /\ \E S \in SUBSET Range(year_options(Val(df))) :
           /\ S # selected_years
           /\ selected_years' = S
    /\ UNCHANGED <<selected_journals, selected_sources, search_term>>
    /\ Restart

\* The user changes the journal multiselect
SelectJournals ==
    /\ prog = "app"
    /\ pc = "idle"
    /\ "journals" \in Range(rendered)
    /\ \E S \in SUBSET Range(journal_options(Val(df))) :
           /\ S # selected_journals
           /\ selected_journals' = S
    /\ UNCHANGED <<selected_years, selected_sources, search_term>>
    /\ Restart

\* The user changes the source multiselect
SelectSources ==
    /\ prog = "app"
    /\ pc = "idle"
    /\ "sources" \in Range(rendered)
    /\ \E S \in SUBSET Range(source_options(Val(df))) :
           /\ S # selected_sources
           /\ selected_sources' = S
    /\ UNCHANGED <<selected_years, selected_journals, search_term>>
    /\ Restart

\* The user types into the search box of tab5
EnterSearch ==
    /\ prog = "app"
    /\ pc = "idle"
    /\ "search" \in Range(rendered)
    /\ \E t \in SearchTerms :
           /\ t # search_term
           /\ search_term' = t
    /\ UNCHANGED <<selected_years, selected_journals, selected_sources>>
    /\ Restart

\* main(), lines 290-335: tab5 (the search, the table, the download) and the footer
DataTable ==
    /\ prog = "app"
    /\ pc = "tab5"
    /\ LET v == Val(filtered_df)
           found == IF search_term # <<>>
                    THEN select_rows(v, LAMBDA r : search_mask(r, search_term))
                    ELSE v
       IN  /\ filtered_df' = Some(found)
           /\ IF "authors" \in found.columns
              THEN /\ rendered' = rendered \o <<"search", "table", "download", "footer">>
                   /\ outcome' = "ok"
              ELSE /\ rendered' = Append(rendered, "search")
                   /\ outcome' = "KeyError"
    /\ pc' = "idle"
    /\ UNCHANGED <<file, prog, df, selected_years, selected_journals, selected_sources,
                   search_term, cleaned_df, metrics, year_counts, all_titles, words,
                   top_words, report>>

-----------------------------------------------------------------------------
(* src/src/data_analysis.py: class CORD19Analyzer.  main() calls load_data,        *)
(* clean_data, the analyze_* methods and generate_summary_report in that order;    *)
(* here an analyze_* method or the report may be called whenever cleaned_df is     *)
(* set.  The plots and the printed tables are left out.  An exception is not       *)
(* caught anywhere: it ends the script.                                            *)

\* self.cleaned_df['abstract'].fillna('')
fillna_abstract(r) ==
    [r EXCEPT !.abstract = IF IsAbsent(r.abstract) THEN Some(<<>>) ELSE r.abstract]

\* dropna(subset=['title', 'publish_time'])
dropna_rows(rows) ==
    SelectSeq(rows, LAMBDA r : ~IsAbsent(r.title) /\ ~IsAbsent(r.publish_time))

\* A mutant of df_copy: self.cleaned_df = self.df, one frame under two names
df_copy_alias(d) == [alias |-> TRUE, frame |-> d]

\* self.df.copy(): a frame of its own with the same content
df_copy(d) == [alias |-> FALSE, frame |-> d]

\* clean_data(): [raised, cleaned_df, df].  self.cleaned_df is assigned first and
\* changed in place column by column, so a KeyError leaves what was done until
\* then; dropna returns a new frame.  df is self.df after the call: the frame
\* that was changed in place if cleaned_df was no copy of it
clean_data(d) ==
    LET c == df_copy(d)
        store(changed) == IF c.alias THEN changed ELSE d
    IN  IF "abstract" \notin d.columns
        THEN [raised |-> "KeyError", cleaned_df |-> Some(c.frame), df |-> store(c.frame)]
        ELSE LET filled == [c.frame EXCEPT !.rows = [i \in 1..Len(d.rows) |->
                                                       fillna_abstract(d.rows[i])]]
             IN  IF \/ "publish_time" \notin d.columns
                    \/ "title" \notin d.columns
                 THEN [raised |-> "KeyError", cleaned_df |-> Some(filled),
                       df |-> store(filled)]
                 ELSE LET derived == [columns |-> d.columns \cup DerivedColumns,
                                      rows |-> [i \in 1..Len(filled.rows) |->
                                                   derive_row(filled.rows[i])]]
                      IN  [raised |-> "none",
                           cleaned_df |-> Some([derived EXCEPT
                                                  !.rows = dropna_rows(derived.rows)]),
                           df |-> store(derived)]

\* generate_summary_report(): the values printed, line by line; Series.mode() of
\* a column without a present value is empty and .iloc[0] raises IndexError
NoReport ==
    [lines |-> 0, total |-> Absent, year_min |-> Absent, year_max |-> Absent,
     most_active_year |-> Absent, avg_abstract_length |-> Absent]

generate_summary_report(c) ==
    LET l2 == [NoReport EXCEPT
                 !.lines = 2,
                 !.total = Some(Len(c.rows)),
                 !.year_min = dt_year(series_min_ts(col(c, "publish_time"))),
                 !.year_max = dt_year(series_max_ts(col(c, "publish_time")))]
        year_mode == series_mode(col(c, "year"))
        l4 == [l2 EXCEPT
                 !.lines = 4,
                 !.most_active_year =
                     Some(CHOOSE y \in {Val(m) : m \in year_mode} :
                              \A m \in year_mode : y <= Val(m)),
                 !.avg_abstract_length = series_mean(col(c, "abstract_word_count"))]
    IN  IF year_mode = {}
        THEN [raised |-> "IndexError", report |-> l2]
        ELSE IF "journal" \notin c.columns
        THEN [raised |-> "KeyError", report |-> l4]
        ELSE IF series_mode(col(c, "journal")) = {}
        THEN [raised |-> "IndexError", report |-> l4]
        ELSE IF "source" \notin c.columns
        THEN [raised |-> "KeyError", report |-> [l4 EXCEPT !.lines = 5]]
        ELSE IF series_mode(col(c, "source")) = {}
        THEN [raised |-> "IndexError", report |-> [l4 EXCEPT !.lines = 5]]
        ELSE [raised |-> "none", report |-> [l4 EXCEPT !.lines = 6]]

\* analyze_word_frequency, lines 174-183
title_words_batch(titles) ==
    LET ws == tokenize_batch(titles)
    IN  [words |-> Some(ws), top_words |-> Some(most_common(Counter(ws), TopWordsLimit))]

BatchFrame == UNCHANGED <<file, prog, selected_years, selected_journals,
                          selected_sources, search_term, filtered_df, metrics, rendered>>

\* CORD19Analyzer.load_data
LoadData ==
    /\ prog = "batch"
    /\ pc = "start"
    /\ IF file.exists
       THEN /\ df' = Some(read_csv(file))
            /\ pc' = "loaded"
            /\ outcome' = "running"
       ELSE /\ df' = Absent
            /\ pc' = "crashed"
            /\ outcome' = "FileNotFoundError"
    /\ UNCHANGED <<cleaned_df, year_counts, all_titles, words, top_words, report>>
    /\ BatchFrame

\* CORD19Analyzer.clean_data
CleanData ==
    /\ prog = "batch"
    /\ pc = "loaded"
    /\ LET r == clean_data(Val(df))
       IN  /\ cleaned_df' = r.cleaned_df
           /\ df' = Some(r.df)
           /\ outcome' = IF r.raised = "none" THEN "running" ELSE r.raised
           /\ pc' = IF r.raised = "none" THEN "cleaned" ELSE "crashed"
    /\ UNCHANGED <<year_counts, all_titles, words, top_words, report>>
    /\ BatchFrame

\* CORD19Analyzer.analyze_publications_by_year
AnalyzePublicationsByYear ==
    /\ prog = "batch"
    /\ pc = "cleaned"
    /\ year_counts' = Some(value_counts_sort_index(col(Val(cleaned_df), "year")))
    /\ UNCHANGED <<df, cleaned_df, all_titles, words, top_words, report, outcome, pc>>
    /\ BatchFrame

\* CORD19Analyzer.analyze_word_frequency
AnalyzeWordFrequency ==
    /\ prog = "batch"
    /\ pc = "cleaned"
    /\ LET titles == join_titles(Val(cleaned_df))
           tw == title_words_batch(titles)
       IN  /\ all_titles' = Some(titles)
           /\ words' = tw.words
           /\ top_words' = tw.top_words
    /\ UNCHANGED <<df, cleaned_df, year_counts, report, outcome, pc>>
    /\ BatchFrame

\* CORD19Analyzer.generate_summary_report
GenerateSummaryReport ==
    /\ prog = "batch"
    /\ pc = "cleaned"
    /\ LET r == generate_summary_report(Val(cleaned_df))
       IN  /\ report' = r.report
           /\ outcome' = IF r.raised = "none" THEN "ok" ELSE r.raised
           /\ pc' = IF r.raised = "none" THEN "done" ELSE "crashed"
    /\ UNCHANGED <<df, cleaned_df, year_counts, all_titles, words, top_words>>
    /\ BatchFrame

-----------------------------------------------------------------------------

Init ==
    /\ file \in Files
    /\ prog \in {"app", "batch"}
    /\ pc = "start"
    /\ df = Absent
    /\ selected_years = {}
    /\ selected_journals = {}
    /\ selected_sources = {}
    /\ search_term = <<>>
    /\ filtered_df = Absent
    /\ cleaned_df = Absent
    /\ metrics = Absent
    /\ year_counts = Absent
    /\ all_titles = Absent
    /\ words = Absent
    /\ top_words = Absent
    /\ report = NoReport
    /\ outcome = "none"
    /\ rendered = <<>>

Next ==
    \/ Main
    \/ SelectYears
    \/ SelectJournals
    \/ SelectSources
    \/ EnterSearch
    \/ DataTable
    \/ LoadData
    \/ CleanData
    \/ AnalyzePublicationsByYear
    \/ AnalyzeWordFrequency
    \/ GenerateSummaryReport

Spec == Init /\ [][Next]_vars

-----------------------------------------------------------------------------
(* The title word analysis of both programs on joined titles of any length: *)
(* some titles, then titles "w01", "w02", ..., then one more title          *)

\* Most titles in front of the numbered ones
MaxPre == 2

\* Most numbered titles; more than TopWordsLimit
MaxFill == 22

AffixTitles == { <<"W","2","2">>, <<"t","h","e">>, <<"H","e","r">>,
                 <<"a","b"," ","w","0","1">> }

numbered_title(i) == <<"w", Digits[(i \div 10) + 1], Digits[(i % 10) + 1]>>

TitleLists ==
    { pre \o [i \in 1..k |-> numbered_title(i)] \o post :
        pre \in UNION {[1..n -> AffixTitles] : n \in 0..MaxPre},
        k \in 0..MaxFill,
        post \in {<<>>} \cup {<<t>> : t \in AffixTitles} }

InitText ==
    /\ all_titles \in {Some(join(ts)) : ts \in TitleLists}
    /\ prog \in {"app", "batch", "cloud"}
    /\ pc = "titles"
    /\ file = [exists |-> FALSE, columns |-> {}, rows |-> <<>>]
    /\ df = Absent
    /\ selected_years = {}
    /\ selected_journals = {}
    /\ selected_sources = {}
    /\ search_term = <<>>
    /\ filtered_df = Absent
    /\ cleaned_df = Absent
    /\ metrics = Absent
    /\ year_counts = Absent
    /\ words = Absent
    /\ top_words = Absent
    /\ report = NoReport
    /\ outcome = "none"
    /\ rendered = <<>>

TextFrame == UNCHANGED <<file, prog, df, selected_years, selected_journals,
                         selected_sources, search_term, filtered_df, cleaned_df, metrics,
                         year_counts, all_titles, report, outcome, rendered>>

\* app.py, tab4
TitleWordsApp ==
    /\ prog = "app"
    /\ pc = "titles"
    /\ words' = title_words_app(Val(all_titles)).words
    /\ top_words' = title_words_app(Val(all_titles)).top_words
    /\ pc' = "done"
    /\ TextFrame

\* data_analysis.py, analyze_word_frequency
TitleWordsBatch ==
    /\ prog = "batch"
    /\ pc = "titles"
    /\ words' = title_words_batch(Val(all_titles)).words
    /\ top_words' = title_words_batch(Val(all_titles)).top_words
    /\ pc' = "done"
    /\ TextFrame

\* app.py, create_word_cloud
CreateWordCloud ==
    /\ prog = "cloud"
    /\ pc = "titles"
    /\ words' = create_word_cloud(Val(all_titles))
    /\ top_words' = Absent
    /\ pc' = "done"
    /\ TextFrame

NextText ==
    \/ TitleWordsApp
    \/ TitleWordsBatch
    \/ CreateWordCloud

SpecText == InitText /\ [][NextText]_vars

-----------------------------------------------------------------------------
(* Properties *)

\* a is an order-preserving subsequence of b
RECURSIVE IsSubseqFrom(_, _, _, _)
IsSubseqFrom(a, i, b, j) ==
    IF i > Len(a) THEN TRUE
    ELSE IF j > Len(b) THEN FALSE
    ELSE IF a[i] = b[j] THEN IsSubseqFrom(a, i + 1, b, j + 1)
    ELSE IsSubseqFrom(a, i, b, j + 1)

IsSubseq(a, b) == IsSubseqFrom(a, 1, b, 1)

RECURSIVE SumCounts(_, _)
SumCounts(counts, i) ==
    IF i > Len(counts) THEN 0 ELSE counts[i][2] + SumCounts(counts, i + 1)

\* The app has computed the filtered view and not yet applied the search
AppFiltered == prog = "app" /\ pc = "tab5"

\* Every option the three multiselects offer is selected
AllOptionsSelected ==
    /\ selected_years = Range(year_options(Val(df)))
    /\ selected_journals = Range(journal_options(Val(df)))
    /\ selected_sources = Range(source_options(Val(df)))

\* C1 as claimed: with every offered year, journal and source selected, the
\* filtered view is the full store, in row order, rows with an absent year,
\* journal or source included.
C1_AllSelectedReturnsFullStore ==
    (AppFiltered /\ AllOptionsSelected) => Val(filtered_df).rows = Val(df).rows

\* C1 as amended: with every offered year, journal and source selected, the
\* filtered view is, in row order, exactly the rows of the store whose year is
\* present; rows with an absent journal or source are in it, rows with an absent
\* year are not.
C1_AllSelectedReturnsRowsWithYear ==
    (AppFiltered /\ AllOptionsSelected) =>
        Val(filtered_df).rows = SelectSeq(Val(df).rows, LAMBDA r : ~IsAbsent(r.year))

C1_Witness ==
    /\ AppFiltered
    /\ AllOptionsSelected
    /\ Len(Val(df).rows) = 2
    /\ IsAbsent(Val(df).rows[1].year)
    /\ Len(Val(filtered_df).rows) = 1
    /\ Val(filtered_df).rows[1] = Val(df).rows[2]
    /\ IsAbsent(Val(filtered_df).rows[1].journal)
    /\ IsAbsent(Val(filtered_df).rows[1].source)

\* C2: for criteria C1 whose year, journal and source sets are subsets of those
\* of criteria C2, the view filtered by C1 is an order-preserving subsequence of
\* the view filtered by C2 (C2: the selection of the run, C1: any selection
\* within it).
C2_SubsetCriteriaGiveSubsequence ==
    AppFiltered =>
        \A sy \in SUBSET selected_years, sj \in SUBSET selected_journals,
           ss \in SUBSET selected_sources :
            IsSubseq(apply_filter(Val(df), sy, sj, ss).rows, Val(filtered_df).rows)

C2_Witness ==
    /\ AppFiltered
    /\ Len(Val(filtered_df).rows) = 2
    /\ \E sy \in SUBSET selected_years, sj \in SUBSET selected_journals :
          LET v == apply_filter(Val(df), sy, sj, selected_sources).rows
          IN  /\ Len(v) = 1
              /\ v[1] = Val(filtered_df).rows[2]
              /\ v[1] # Val(filtered_df).rows[1]

\* C3: the per-year publication counts, summed over all years, equal the number
\* of records of the view they are computed over: the app's filtered view and
\* the batch script's cleaned dataset.
C3_YearCountsSumToViewSize ==
    /\ AppFiltered => SumCounts(Val(year_counts), 1) = Len(Val(filtered_df).rows)
    /\ (prog = "batch" /\ ~IsAbsent(year_counts)) =>
           SumCounts(Val(year_counts), 1) = Len(Val(cleaned_df).rows)

C3_Witness ==
    /\ AppFiltered
    /\ Len(Val(df).rows) = 2
    /\ \E i \in 1..2 : IsAbsent(Val(df).rows[i].year)
    /\ Len(Val(filtered_df).rows) = 1
    /\ Len(Val(year_counts)) = 1
    /\ Val(year_counts)[1][2] = 1

\* The one stop-word set of the claim: articles, conjunctions, auxiliary verbs
\* and pronouns, every word a tokenizer of the repository lists
FixedStopWords == stop_words_app \cup stop_words_batch

\* C4 as claimed: the tokens of every text, at each of the three tokenizers,
\* contain no word of the fixed stop-word set and no token of length 2 or less,
\* and are an order-preserving subsequence of the lowercase word-character runs
\* of the text.
C4_TokensHaveNoStopWord ==
    (pc = "done" /\ ~IsAbsent(words)) =>
        /\ \A i \in 1..Len(Val(words)) :
              Val(words)[i] \notin FixedStopWords /\ Len(Val(words)[i]) > 2
        /\ IsSubseq(Val(words), findall(lower(Val(all_titles))))

\* Number of occurrences and first position of word w in ws
Occurrences(w, ws) == Cardinality({i \in 1..Len(ws) : ws[i] = w})
FirstSeen(w, ws) == CHOOSE i \in 1..Len(ws) : ws[i] = w /\ \A j \in 1..(i - 1) : ws[j] # w

\* C5: the top-words table (limit 20) is sorted by descending count; of two words
\* with equal counts the one first seen earlier comes first; each count is the
\* number of occurrences of its word; the table has at most 20 entries and at
\* most as many as there are distinct words.
C5_TopWordsSortedStableExact ==
    (pc = "done" /\ ~IsAbsent(top_words)) =>
        LET tw == Val(top_words)
            ws == Val(words)
        IN  /\ \A i \in 1..Len(tw) : tw[i][2] = Occurrences(tw[i][1], ws)
            /\ \A i, j \in 1..Len(tw) :
                  i < j => /\ tw[i][2] >= tw[j][2]
                           /\ tw[i][2] = tw[j][2] =>
                                 FirstSeen(tw[i][1], ws) < FirstSeen(tw[j][1], ws)
            /\ Len(tw) <= 20
            /\ Len(tw) <= Cardinality(Range(ws))

C5_Witness ==
    /\ pc = "done"
    /\ ~IsAbsent(top_words)
    /\ Len(Val(top_words)) = 20
    /\ Cardinality(Range(Val(words))) > 20
    /\ Val(top_words)[1][2] = 3
    /\ Val(top_words)[2][2] = 2
    /\ Val(top_words)[3][2] = 1
    /\ FirstSeen(Val(top_words)[1][1], Val(words)) > FirstSeen(Val(top_words)[2][1], Val(words))

\* The number of whitespace-delimited tokens of a text: the positions where a
\* character that is no whitespace starts the text or follows whitespace
TokenStarts(text) ==
    Cardinality({i \in 1..Len(text) :
                    ~IsSpace(text[i]) /\ (i = 1 \/ IsSpace(text[i - 1]))})

ExpectedWordCount(raw) ==
    IF IsAbsent(raw) \/ Val(raw) = <<>> THEN 0 ELSE TokenStarts(Val(raw))

\* The records the programs have loaded, each with the raw cells it came from
LoadedRecords ==
    IF prog = "app" /\ ~IsAbsent(df)
    THEN {<<Val(df).rows[i], file.rows[i]>> : i \in 1..Len(Val(df).rows)}
    ELSE IF prog = "batch" /\ pc \in {"cleaned", "done"}
    THEN {<<Val(cleaned_df).rows[i], file.rows[Val(cleaned_df).rows[i].index + 1]>> :
             i \in 1..Len(Val(cleaned_df).rows)}
    ELSE {}

\* C6: for every loaded record, abstract_word_count (title_word_count) is the
\* number of whitespace-delimited tokens of the raw abstract (title) when it is
\* present and not empty, and 0 when it is absent or empty; it is never negative.
C6_WordCountsMatchRawText ==
    \A p \in LoadedRecords :
        /\ p[1].abstract_word_count = ExpectedWordCount(p[2].abstract)
        /\ p[1].title_word_count = ExpectedWordCount(p[2].title)
        /\ p[1].abstract_word_count >= 0
        /\ p[1].title_word_count >= 0

C6_Witness ==
    /\ prog = "batch"
    /\ \E p \in LoadedRecords : /\ p[2].abstract = Some(A_covOfX)
                                 /\ p[1].abstract_word_count = 3
                                 /\ p[1].title_word_count = 2
    /\ \E p \in LoadedRecords : /\ IsAbsent(p[2].abstract)
                                 /\ p[1].abstract = Some(<<>>)
                                 /\ p[1].abstract_word_count = 0

\* s occurs in the cell as a literal substring, compared case-insensitively
LiteralContains(cell, s) ==
    /\ ~IsAbsent(cell)
    /\ \E k \in 1..(Len(Val(cell)) - Len(s) + 1) :
          lower(SubSeq(Val(cell), k, k + Len(s) - 1)) = lower(s)

\* A run of the app has come to its end, the search of tab5 included
AppSearched == prog = "app" /\ pc = "idle" /\ outcome = "ok"

\* C7 as claimed: under a non-empty search term s, a record of the filtered view
\* is kept exactly when s is a literal substring, compared case-insensitively,
\* of its title or of its abstract; an empty search term keeps every record.
C7_SearchIsLiteralSubstring ==
    AppSearched =>
        LET view == apply_filter(Val(df), selected_years, selected_journals,
                                 selected_sources).rows
        IN  Val(filtered_df).rows =
                IF search_term = <<>> THEN view
                ELSE SelectSeq(view, LAMBDA r : \/ LiteralContains(r.title, search_term)
                                                \/ LiteralContains(r.abstract, search_term))

\* C8: a record is in the filtered view exactly when its year is among the
\* selected years and its journal among the selected journals and its source
\* among the selected sources; a record with an absent year is in the view only
\* if the absent year is itself selected.
C8_ViewIsConjunctionOfSelections ==
    AppFiltered =>
        /\ IsSubseq(Val(filtered_df).rows, Val(df).rows)
        /\ \A i \in 1..Len(Val(df).rows) :
              LET r == Val(df).rows[i]
                  inView == \E k \in 1..Len(Val(filtered_df).rows) :
                                Val(filtered_df).rows[k].index = r.index
              IN  /\ inView <=> (/\ r.year \in selected_years
                                 /\ r.journal \in selected_journals
                                 /\ r.source \in selected_sources)
                  /\ (IsAbsent(r.year) /\ Absent \notin selected_years) => ~inView

C8_Witness ==
    /\ AppFiltered
    /\ Len(Val(df).rows) = 2
    /\ Len(Val(filtered_df).rows) = 1
    /\ Val(filtered_df).rows[1] = Val(df).rows[2]
    /\ LET r == Val(df).rows[1]
       IN  /\ r.year \in selected_years
           /\ r.journal \notin selected_journals
           /\ r.source \in selected_sources

\* C9 as claimed: over an empty view every aggregate and the summary complete
\* without raising, the total is 0, and year_min, year_max and the average
\* abstract length are reported as absent: in the app's overview metrics and
\* in the batch script's generate_summary_report.
C9_EmptyViewSummaryDoesNotRaise ==
    /\ (AppFiltered /\ Val(filtered_df).rows = <<>>) =>
           /\ Val(metrics).total = 0
           /\ IsAbsent(Val(metrics).year_min)
           /\ IsAbsent(Val(metrics).year_max)
           /\ IsAbsent(Val(metrics).avg_abstract_length)
    /\ (prog = "batch" /\ report.lines > 0 /\ Val(cleaned_df).rows = <<>>) =>
           /\ outcome = "ok"
           /\ report.total = Some(0)
           /\ IsAbsent(report.year_min)
           /\ IsAbsent(report.year_max)
           /\ IsAbsent(report.avg_abstract_length)

\* C10 as claimed: when the file is missing or lacks a required column, the load
\* ends in the DataUnavailable error shown to the user, no store is produced,
\* and no filter, aggregate or UI step is performed.  An exception that leaves
\* load_data is counted as that error too: Streamlit shows it to the user.
C10_MissingFileOrColumnIsDataUnavailable ==
    (/\ prog = "app"
     /\ pc \in {"tab5", "idle"}
     /\ (~file.exists \/ file.columns # RequiredColumns)) =>
        /\ outcome \in {"DataUnavailable", "KeyError"}
        /\ IsAbsent(df)
        /\ IsAbsent(filtered_df)
        /\ IsAbsent(metrics)
        /\ IsAbsent(year_counts)
        /\ Range(rendered) \subseteq {"header", "error"}

-----------------------------------------------------------------------------
(* C11: rows whose publish_time is no date *)

\* A row of the file whose publish_time cell is present and is no date
Malformed(r) == ~IsAbsent(r.publish_time) /\ Val(r.publish_time)[1] = "junk"

\* The file without its malformed rows
WithoutMalformed(f) == [f EXCEPT !.rows = SelectSeq(f.rows, LAMBDA r : ~Malformed(r))]

\* A record without its row label
Fields(r) == [c \in DOMAIN r \ {"index"} |-> r[c]]

FieldsOf(rows) == [i \in 1..Len(rows) |-> Fields(rows[i])]

\* The parsed records of the run: the app's df, the batch script's cleaned_df
ParsedRecords == IF prog = "app" THEN df ELSE cleaned_df

\* The parsed records the same program makes of file f
ParsedRecordsOf(f) ==
    IF prog = "app" THEN load_data(f).df ELSE clean_data(read_csv(f)).cleaned_df

\* The run has parsed a complete file that has a malformed row
ParsedMalformedFile ==
    /\ file.exists
    /\ file.columns = RequiredColumns
    /\ \E i \in 1..Len(file.rows) : Malformed(file.rows[i])
    /\ \/ prog = "app" /\ pc \in {"tab5", "idle"}
       \/ prog = "batch" /\ pc \in {"cleaned", "done", "crashed"}

\* C11 as claimed: when some rows of the input have a publish_time that is no
\* date, the load still succeeds, each such row is kept as a record with absent
\* publish_time and absent year, and the records of the other rows are the
\* records the same input gives without the malformed rows.
C11_MalformedDateRowsAreKept ==
    ParsedMalformedFile =>
        /\ ~IsAbsent(ParsedRecords)
        /\ \A i \in 1..Len(file.rows) :
               Malformed(file.rows[i]) =>
                   \E k \in 1..Len(Val(ParsedRecords).rows) :
                       LET r == Val(ParsedRecords).rows[k]
                       IN  /\ r.index = i - 1
                           /\ IsAbsent(r.publish_time)
                           /\ IsAbsent(r.year)
        /\ FieldsOf(SelectSeq(Val(ParsedRecords).rows,
                              LAMBDA r : ~Malformed(file.rows[r.index + 1])))
             = FieldsOf(Val(ParsedRecordsOf(WithoutMalformed(file))).rows)

-----------------------------------------------------------------------------
(* C12: the store *)

\* The store as the load of the file makes it: the app's load_data() result,
\* the batch script's self.df after load_data
StoreAsLoaded == IF prog = "app" THEN load_data(file).df ELSE Some(read_csv(file))

\* C12: after any sequence of filter applications, searches, cleaning,
\* aggregate computations and exports, the loaded store (the app's df, the batch
\* script's self.df) holds the same records with the same field values in the
\* same order as immediately after the load.
C12_StoreIsNeverChanged == ~IsAbsent(df) => df = StoreAsLoaded

\* The batch script has cleaned a two-row store down to one row, computed the
\* aggregates and written the report
C12_Witness ==
    /\ prog = "batch"
    /\ pc = "done"
    /\ Len(Val(df).rows) = 2
    /\ Len(Val(cleaned_df).rows) = 1
    /\ Val(cleaned_df).rows[1].abstract # Val(df).rows[Val(cleaned_df).rows[1].index + 1].abstract
    /\ ~IsAbsent(year_counts)
    /\ ~IsAbsent(top_words)
    /\ report.lines = 6

-----------------------------------------------------------------------------
(* C13: the aggregates and the search term *)

\* C13 as claimed: after every user interaction, entering a search term
\* included, the aggregates presented in that run (total papers, unique
\* journals, year range, average abstract length, counts by year, word
\* frequencies) are computed over the filtered view that satisfies all active
\* criteria, the search term included, never over the view as it was before
\* the search term was applied.
C13_AggregatesCoverSearchedView ==
    AppSearched =>
        LET v == Val(filtered_df)
            tw == title_words_app(join_titles(v))
        IN  /\ v = select_rows(apply_filter(Val(df), selected_years, selected_journals,
                                            selected_sources),
                               LAMBDA r : search_term = <<>> \/ search_mask(r, search_term))
            /\ metrics = Some(overview_metrics(v))
            /\ year_counts = Some(value_counts_sort_index(col(v, "year")))
            /\ all_titles = Some(join_titles(v))
            /\ words = tw.words
            /\ top_words = tw.top_words

====
